---- MODULE Spec2Model ----
(***************************************************************************)
(* State-machine model of the sPMO Command Center session orchestrator     *)
(* (utils/pmo_session_state_manager.py), the dashboards' simulated write   *)
(* handlers (dashboards/strategic_planning.py, project_deep_dive.py),      *)
(* the data-connector cache (utils/data_connectors.py), the script run of  *)
(* the shell (app.py), the memoized ML functions (utils/ml_models.py), the *)
(* portfolio optimizer (utils/optimization.py) and the health scorecard    *)
(* (dashboards/portfolio_dashboard.py).                                    *)
(*                                                                         *)
(* One Streamlit session: st.session_state holds the data model built by   *)
(* SPMOSessionStateManager.__init__, the sandbox flag and slot and the     *)
(* audit trail.  Every user interaction is one handler run to completion.  *)
(* Records keep the fields the handlers read or write; free-text and date  *)
(* fields, which no handler reads, are left out.                           *)
(***************************************************************************)
EXTENDS Integers, Sequences, FiniteSets, TLC

VARIABLES
    live,          \* st.session_state[_PMO_DATA_KEY]: the model built at construction
    sandbox,       \* the sandbox slot: a copy of the model, or NoModel
    sandbox_mode,  \* st.session_state['sandbox_mode']
    audit_trail,   \* st.session_state['audit_trail']
    ui_msg,        \* the message the last handler showed: none, error or warning
    ret,           \* the value the last get_data call returned
    DATA_CACHE,    \* data_connectors._DATA_CACHE (module global)
    conn_ret,      \* the value the last connector accessor returned
    conn_calls,    \* connector accessor calls made in this process
    constructions, \* runs of _create_spmo_model in this process
    rng,           \* the process's `random` generator: how its state was seeded
    pc,            \* app.py: the position of the current script run
    shown,         \* app.py: the UI parts the current script run has drawn
    page,          \* app.py: the selection the sidebar radio last returned
    failed,        \* app.py: the startup step that failed in the current run
    args,          \* the arguments of a library call
    result,        \* the value that library call returned
    ml_cache       \* Streamlit's process-wide memo of the cached functions

vars == <<live, sandbox, sandbox_mode, audit_trail, ui_msg, ret,
          DATA_CACHE, conn_ret, conn_calls, constructions, rng,
          pc, shown, page, failed, args, result, ml_cache>>

sessionVars == <<live, sandbox, sandbox_mode, audit_trail, ui_msg, ret>>
connVars == <<DATA_CACHE, conn_ret, conn_calls>>
shellVars == <<pc, shown, page, failed>>
libVars == <<args, result, ml_cache>>

(***************************************************************************)
(* Bounds of the model.                                                    *)
(***************************************************************************)
MaxAudit == 3    \* audit events logged in the session
MaxCalls == 2    \* connector accessor calls in the process
FinRows == 2     \* generated Actuals rows kept in the cache's financials
DemandRows == 1  \* generated demand-history rows kept in the cache
MaxConstructions == 2  \* model constructions in the process
MaxAlertProjects == 2  \* projects the automation engine is run on
MaxActive == 2         \* project rows the health scorecard is computed on

(***************************************************************************)
(* Sequence helpers.                                                       *)
(***************************************************************************)
Range(s) == {s[i] : i \in 1..Len(s)}

IsPrefix(s, t) == Len(s) <= Len(t) /\ SubSeq(t, 1, Len(s)) = s

(***************************************************************************)
(* The model _create_spmo_model builds.                                    *)
(***************************************************************************)
_CURRENT_DATA_VERSION == 10

projects0 == <<
    [id |-> "NPD-001", health_status |-> "At Risk"],
    [id |-> "NPD-002", health_status |-> "On Track"],
    [id |-> "NPD-003", health_status |-> "Needs Monitoring"],
    [id |-> "LCM-002", health_status |-> "At Risk"],
    [id |-> "LCM-H01", health_status |-> "Completed"],
    [id |-> "NPD-H01", health_status |-> "Completed"],
    [id |-> "NPD-H02", health_status |-> "Completed"] >>

allocations0 == <<
    [project_id |-> "NPD-001", resource_name |-> "Charlie Day", allocated_hours_week |-> 20],
    [project_id |-> "NPD-001", resource_name |-> "Diana Evans", allocated_hours_week |-> 10],
    [project_id |-> "NPD-002", resource_name |-> "Alice Weber", allocated_hours_week |-> 25],
    [project_id |-> "NPD-002", resource_name |-> "Bob Chen", allocated_hours_week |-> 40],
    [project_id |-> "NPD-003", resource_name |-> "Charlie Day", allocated_hours_week |-> 20],
    [project_id |-> "NPD-003", resource_name |-> "Grace Hopper", allocated_hours_week |-> 20],
    [project_id |-> "LCM-002", resource_name |-> "Diana Evans", allocated_hours_week |-> 30],
    [project_id |-> "LCM-002", resource_name |-> "Henry Ford", allocated_hours_week |-> 20] >>

milestones0 == <<
    [project_id |-> "NPD-001", milestone |-> "Assay Design Lock", status |-> "Completed"],
    [project_id |-> "NPD-001", milestone |-> "V&V Start", status |-> "At Risk"],
    [project_id |-> "NPD-001", milestone |-> "510(k) Submission", status |-> "Pending"],
    [project_id |-> "NPD-002", milestone |-> "Prototype Complete", status |-> "Completed"] >>

change_controls0 == <<
    [dcr_id |-> "DCR-24-001", project_id |-> "NPD-001", status |-> "Approved"],
    [dcr_id |-> "DCR-24-002", project_id |-> "NPD-002", status |-> "In Review"] >>

strategic_goals0 == << [id |-> "SG-01"], [id |-> "SG-02"], [id |-> "SG-03"], [id |-> "SG-04"] >>

CreateSpmoModel ==
    [ data_version |-> _CURRENT_DATA_VERSION,
      strategic_goals |-> strategic_goals0,
      projects |-> projects0,
      allocations |-> allocations0,
      milestones |-> milestones0,
      change_controls |-> change_controls0 ]

\* No model stored under the key: session_state.get(key, {}) is the empty dict.
NoModel == [data_version |-> 0]

NoRet == [key |-> "", value |-> <<>>]
\* _DATA_CACHE = {}
EmptyCache == [k \in {} |-> <<>>]
\* No library call made yet; nothing memoized yet.
NoArgs == [fn |-> "none"]
NoResult == [status |-> "none"]
EmptyMemo == [k \in {} |-> NoResult]

ProjectIds == {projects0[i].id : i \in 1..Len(projects0)}
DcrKeys == {<<change_controls0[i].dcr_id, change_controls0[i].project_id>> :
               i \in 1..Len(change_controls0)}
\* Project ids passed to direct calls: an active and a completed project.
CallProjectIds == {"NPD-001", "NPD-H01"}
DataKeys == {"projects", "change_controls", "alerts"}

(***************************************************************************)
(* SPMOSessionStateManager.get_data: reads the model stored under          *)
(* _PMO_DATA_KEY; a missing key gives the empty list.                      *)
(***************************************************************************)
Lookup(model, key) == IF key \in DOMAIN model THEN model[key] ELSE <<>>

get_data(key) == Lookup(live, key)

\* SPMOSessionStateManager._get_active_data_model: the sandbox copy while
\* sandbox mode is on, the live model otherwise.
ActiveModel == IF sandbox_mode THEN sandbox ELSE live

\* A handler's in-place write to the model _get_active_data_model returned.
SetActive(m) ==
    IF sandbox_mode THEN sandbox' = m /\ live' = live
    ELSE live' = m /\ sandbox' = sandbox

\* An AuditEvent (the timestamp, which no handler reads, is left out).
AuditEvent(event_type, details, user) ==
    [event_type |-> event_type, details |-> details, user |-> user]

\* Variant of log_audit_event that starts the trail over with the new event.
LogAuditEvent_Resets(event_type, details, user) ==
    audit_trail' = <<AuditEvent(event_type, details, user)>>

\* SPMOSessionStateManager.log_audit_event: append one event, in any mode.
LogAuditEvent(event_type, details, user) ==
    audit_trail' = Append(audit_trail, AuditEvent(event_type, details, user))

\* The dashboards' active-project filter: health_status != 'Completed'.
ActiveIds(projects) ==
    {projects[i].id : i \in {j \in 1..Len(projects) : projects[j].health_status # "Completed"}}

\* A script run has constructed the orchestrator.
Constructed == live.data_version = _CURRENT_DATA_VERSION

(***************************************************************************)
(* SPMOSessionStateManager.__init__, called by main() on the first run:    *)
(* build the model when none with the current data_version is stored.      *)
(* _create_spmo_model starts with random.seed(42), which seeds the          *)
(* generator the whole process shares.                                     *)
(***************************************************************************)
Construct ==
    /\ live.data_version # _CURRENT_DATA_VERSION
    /\ live' = CreateSpmoModel
    /\ rng' = "seed42"
    /\ constructions' = constructions + 1
    /\ ui_msg' = "none"
    /\ UNCHANGED <<sandbox, sandbox_mode, audit_trail, ret>>
    /\ UNCHANGED <<connVars, shellVars, libVars>>

\* Variant of toggle_sandbox that keeps the sandbox copy on exit and clones
\* the live model only into an empty slot.
ToggleSandbox_KeepsCopy ==
    /\ Constructed
    /\ IF ~sandbox_mode
       THEN /\ Len(audit_trail) < MaxAudit
            /\ sandbox_mode' = TRUE
            /\ sandbox' = IF sandbox = NoModel THEN live ELSE sandbox
            /\ LogAuditEvent("Sandbox Mode", "activated", "System")
       ELSE /\ sandbox_mode' = FALSE
            /\ sandbox' = sandbox
            /\ audit_trail' = audit_trail
    /\ ui_msg' = "none"
    /\ UNCHANGED <<live, ret>>
    /\ UNCHANGED <<connVars, constructions, rng, shellVars, libVars>>

(***************************************************************************)
(* SPMOSessionStateManager.toggle_sandbox (the sandbox tab's toggle).      *)
(***************************************************************************)
ToggleSandbox ==
    /\ Constructed
    /\ IF ~sandbox_mode
       THEN /\ Len(audit_trail) < MaxAudit
            /\ sandbox_mode' = TRUE
            /\ sandbox' = live
            /\ LogAuditEvent("Sandbox Mode", "activated", "System")
       ELSE /\ sandbox_mode' = FALSE
            /\ sandbox' = NoModel
            /\ audit_trail' = audit_trail
    /\ ui_msg' = "none"
    /\ UNCHANGED <<live, ret>>
    /\ UNCHANGED <<connVars, constructions, rng, shellVars, libVars>>

\* Variant of the cancel handler that logs no audit event.
CancelProject_NoAudit(selected_project_id) ==
    /\ Constructed
    /\ get_data("projects") # <<>> /\ get_data("strategic_goals") # <<>>
    /\ sandbox_mode
    /\ selected_project_id \in ActiveIds(get_data("projects"))
    /\ Len(audit_trail) < MaxAudit
    /\ LET sandbox_model == ActiveModel
       IN SetActive([sandbox_model EXCEPT !.projects =
              SelectSeq(sandbox_model.projects, LAMBDA p : p.id # selected_project_id)])
    /\ audit_trail' = audit_trail
    /\ ui_msg' = "none"
    /\ UNCHANGED <<sandbox_mode, ret>>
    /\ UNCHANGED <<connVars, constructions, rng, shellVars, libVars>>

\* Variant of the cancel handler that filters the live project list.
CancelProject_WritesLive(selected_project_id) ==
    /\ Constructed
    /\ get_data("projects") # <<>> /\ get_data("strategic_goals") # <<>>
    /\ sandbox_mode
    /\ selected_project_id \in ActiveIds(get_data("projects"))
    /\ Len(audit_trail) < MaxAudit
    /\ live' = [live EXCEPT !.projects =
                   SelectSeq(live.projects, LAMBDA p : p.id # selected_project_id)]
    /\ LogAuditEvent("Sandbox Simulation", <<"cancel", selected_project_id>>, "System")
    /\ ui_msg' = "none"
    /\ UNCHANGED <<sandbox, sandbox_mode, ret>>
    /\ UNCHANGED <<connVars, constructions, rng, shellVars, libVars>>

(***************************************************************************)
(* "Sim: Cancel Project" of the sandbox tab: shown only while the flag is  *)
(* set, for a project the select box lists.                                *)
(***************************************************************************)
CancelProject(selected_project_id) ==
    /\ Constructed
    /\ get_data("projects") # <<>> /\ get_data("strategic_goals") # <<>>
    /\ sandbox_mode
    /\ selected_project_id \in ActiveIds(get_data("projects"))
    /\ Len(audit_trail) < MaxAudit
    /\ LET sandbox_model == ActiveModel
       IN SetActive([sandbox_model EXCEPT !.projects =
              SelectSeq(sandbox_model.projects, LAMBDA p : p.id # selected_project_id)])
    /\ LogAuditEvent("Sandbox Simulation", <<"cancel", selected_project_id>>, "System")
    /\ ui_msg' = "none"
    /\ UNCHANGED <<sandbox_mode, ret>>
    /\ UNCHANGED <<connVars, constructions, rng, shellVars, libVars>>

\* Variant of reallocate_resources_from_project without the sandbox check.
ReallocateResources_NoGate(project_id) ==
    /\ Len(audit_trail) < MaxAudit
    /\ SetActive([ActiveModel EXCEPT !.allocations =
           SelectSeq(ActiveModel.allocations, LAMBDA a : a.project_id # project_id)])
    /\ LogAuditEvent("Sandbox Simulation", <<"reallocate", project_id>>, "System")
    /\ ui_msg' = "none"

(***************************************************************************)
(* SPMOSessionStateManager.reallocate_resources_from_project.              *)
(***************************************************************************)
ReallocateResources(project_id) ==
    IF ~sandbox_mode
    THEN /\ ui_msg' = "warning"
         /\ UNCHANGED <<live, sandbox, audit_trail>>
    ELSE /\ Len(audit_trail) < MaxAudit
         /\ SetActive([ActiveModel EXCEPT !.allocations =
                SelectSeq(ActiveModel.allocations, LAMBDA a : a.project_id # project_id)])
         /\ LogAuditEvent("Sandbox Simulation", <<"reallocate", project_id>>, "System")
         /\ ui_msg' = "none"

\* "Sim: Reallocate Resources" of the sandbox tab.
SimReallocateResources(selected_project_id) ==
    /\ Constructed
    /\ get_data("projects") # <<>> /\ get_data("strategic_goals") # <<>>
    /\ sandbox_mode
    /\ selected_project_id \in ActiveIds(get_data("projects"))
    /\ ReallocateResources(selected_project_id)
    /\ UNCHANGED <<sandbox_mode, ret>>
    /\ UNCHANGED <<connVars, constructions, rng, shellVars, libVars>>

\* A call of the operation itself, in either mode.
CallReallocateResources(project_id) ==
    /\ Constructed
    /\ ReallocateResources(project_id)
    /\ UNCHANGED <<sandbox_mode, ret>>
    /\ UNCHANGED <<connVars, constructions, rng, shellVars, libVars>>

\* Variant of approve_dcr without the sandbox check.
ApproveDcr_NoGate(dcr_id, project_id, user) ==
    /\ Len(audit_trail) < MaxAudit
    /\ SetActive([ActiveModel EXCEPT !.change_controls =
           [i \in 1..Len(ActiveModel.change_controls) |->
               LET c == ActiveModel.change_controls[i]
               IN IF c.dcr_id = dcr_id /\ c.project_id = project_id
                  THEN [c EXCEPT !.status = "Approved"] ELSE c]])
    /\ LogAuditEvent("DCR Approved", <<dcr_id, project_id>>, user)
    /\ ui_msg' = "none"

\* Variant of approve_dcr that flips the status of the matching DCR.
ApproveDcr_Flips(dcr_id, project_id, user) ==
    IF ~sandbox_mode
    THEN /\ ui_msg' = "error"
         /\ UNCHANGED <<live, sandbox, audit_trail>>
    ELSE /\ Len(audit_trail) < MaxAudit
         /\ SetActive([ActiveModel EXCEPT !.change_controls =
                [i \in 1..Len(ActiveModel.change_controls) |->
                    LET c == ActiveModel.change_controls[i]
                    IN IF c.dcr_id = dcr_id /\ c.project_id = project_id
                       THEN [c EXCEPT !.status =
                                IF c.status = "Approved" THEN "In Review" ELSE "Approved"]
                       ELSE c]])
         /\ LogAuditEvent("DCR Approved", <<dcr_id, project_id>>, user)
         /\ ui_msg' = "none"

(***************************************************************************)
(* SPMOSessionStateManager.approve_dcr.                                    *)
(***************************************************************************)
ApproveDcr(dcr_id, project_id, user) ==
    IF ~sandbox_mode
    THEN /\ ui_msg' = "error"
         /\ UNCHANGED <<live, sandbox, audit_trail>>
    ELSE /\ Len(audit_trail) < MaxAudit
         /\ SetActive([ActiveModel EXCEPT !.change_controls =
                [i \in 1..Len(ActiveModel.change_controls) |->
                    LET c == ActiveModel.change_controls[i]
                    IN IF c.dcr_id = dcr_id /\ c.project_id = project_id
                       THEN [c EXCEPT !.status = "Approved"] ELSE c]])
         /\ LogAuditEvent("DCR Approved", <<dcr_id, project_id>>, user)
         /\ ui_msg' = "none"

\* The Change Control tab's rows: the selected project's DCRs, split by status.
ProjectChanges(selected_project_id) ==
    SelectSeq(get_data("change_controls"), LAMBDA c : c.project_id = selected_project_id)

PendingChanges(selected_project_id) ==
    SelectSeq(ProjectChanges(selected_project_id), LAMBDA c : c.status # "Approved")

ApprovedChanges(selected_project_id) ==
    SelectSeq(ProjectChanges(selected_project_id), LAMBDA c : c.status = "Approved")

\* The "Approve" button of a pending DCR: disabled unless the flag is set.
ApproveButton(dcr_id, selected_project_id) ==
    /\ Constructed
    /\ get_data("projects") # <<>>
    /\ selected_project_id \in ActiveIds(get_data("projects"))
    /\ \E c \in Range(PendingChanges(selected_project_id)) : c.dcr_id = dcr_id
    /\ sandbox_mode
    /\ ApproveDcr(dcr_id, selected_project_id, "PMO Director")
    /\ UNCHANGED <<sandbox_mode, ret>>
    /\ UNCHANGED <<connVars, constructions, rng, shellVars, libVars>>

\* A call of the operation itself, in either mode.
CallApproveDcr(dcr_id, project_id, user) ==
    /\ Constructed
    /\ ApproveDcr(dcr_id, project_id, user)
    /\ UNCHANGED <<sandbox_mode, ret>>
    /\ UNCHANGED <<connVars, constructions, rng, shellVars, libVars>>

\* A call of log_audit_event itself, in either mode.
CallLogAuditEvent(event_type, details, user) ==
    /\ Constructed
    /\ Len(audit_trail) < MaxAudit
    /\ LogAuditEvent(event_type, details, user)
    /\ ui_msg' = "none"
    /\ UNCHANGED <<live, sandbox, sandbox_mode, ret>>
    /\ UNCHANGED <<connVars, constructions, rng, shellVars, libVars>>

\* A dashboard's ssm.get_data(key).
GetData(key) ==
    /\ Constructed
    /\ ret' = [key |-> key, value |-> get_data(key)]
    /\ UNCHANGED <<live, sandbox, sandbox_mode, audit_trail, ui_msg>>
    /\ UNCHANGED <<connVars, constructions, rng, shellVars, libVars>>

(***************************************************************************)
(* utils/data_connectors.py: the process-wide cache and its accessors.     *)
(* A static collection is kept by the ids of its rows; the generated       *)
(* collections keep the random factor of each row: random.uniform(0.9,     *)
(* 1.1) in percent and random.randint(-20, 20), three outcomes each.       *)
(***************************************************************************)
ConnKeys == {"projects", "financials", "pmo_department_budget", "dhf_documents",
             "qms_kpis", "on_market_products", "traceability_matrix",
             "process_adherence", "enterprise_resources", "pmo_team", "allocations",
             "resource_demand_history", "strategic_goals", "raid_logs", "milestones",
             "change_controls", "collaborations", "phase_gate_data"}

UniformOutcomes == {90, 100, 110}
RandintOutcomes == {0 - 20, 0, 20}

StaticCache ==
    [k \in ConnKeys \ {"financials", "resource_demand_history"} |->
        CASE k = "projects" -> <<"NPD-003", "NPD-001", "NPD-002", "NPD-004", "LCM-002",
                                 "COGS-001", "NPD-H01", "LCM-H01">>
          [] k = "change_controls" ->
                 << [dcr_id |-> "DCR-24-001", project_id |-> "NPD-001", status |-> "Pending Review"],
                    [dcr_id |-> "DCR-24-002", project_id |-> "NPD-002", status |-> "Approved"] >>
          [] k = "strategic_goals" -> <<"SG-01", "SG-02", "SG-03", "SG-04">>
          [] k = "pmo_team" -> <<"John Smith", "Jane Doe", "Sofia Chen", "David Lee">>
          [] k = "collaborations" -> <<"NPD-001", "LCM-002">>
          [] k = "raid_logs" -> <<"R-001", "I-001", "D-001">>
          [] OTHER -> <<k>>]

\* The cache after one run of the population code with the given draws.
PopulatedCache(fin, dem) ==
    [k \in ConnKeys |->
        IF k = "financials" THEN fin
        ELSE IF k = "resource_demand_history" THEN dem
        ELSE StaticCache[k]]

\* The draws a generator seeded with 42 by _create_spmo_model yields at the
\* point the population code runs: one fixed value per generated row.
Seed42Fin == [i \in 1..FinRows |-> 110]
Seed42Dem == [i \in 1..DemandRows |-> 0 - 20]

\* The draws of random.uniform and random.randint in the population code:
\* fixed by the seed if _create_spmo_model has seeded the generator, any
\* outcome if the generator still has the seed the interpreter gave it.
Draws ==
    IF rng = "seed42"
    THEN {<<Seed42Fin, Seed42Dem>>}
    ELSE [1..FinRows -> UniformOutcomes] \X [1..DemandRows -> RandintOutcomes]

\* Variant of _initialize_data_cache without the emptiness check.
InitializeDataCache_Always ==
    \E d \in Draws : DATA_CACHE' = PopulatedCache(d[1], d[2])

\* _initialize_data_cache: populate the cache if it is empty.
InitializeDataCache ==
    IF DATA_CACHE # EmptyCache
    THEN DATA_CACHE' = DATA_CACHE
    ELSE \E d \in Draws : DATA_CACHE' = PopulatedCache(d[1], d[2])

\* get_projects_from_erp and the other seventeen accessors:
\* _initialize_data_cache(); return _DATA_CACHE.get(key, []).
ConnGet(key) ==
    /\ conn_calls < MaxCalls
    /\ InitializeDataCache
    /\ conn_ret' = [key |-> key, value |-> Lookup(DATA_CACHE', key)]
    /\ conn_calls' = conn_calls + 1
    /\ UNCHANGED <<sessionVars, constructions, rng, shellVars, libVars>>

\* Variant of Force Data Refresh that drops only the data model.
ForceDataRefresh_KeepsSession ==
    /\ Constructed
    /\ constructions < MaxConstructions
    /\ live' = NoModel
    /\ ui_msg' = "none"
    /\ UNCHANGED <<sandbox, sandbox_mode, audit_trail, ret>>
    /\ UNCHANGED <<connVars, constructions, rng, shellVars, libVars>>

(***************************************************************************)
(* app.py, "Force Data Refresh": st.session_state.clear(); st.rerun().     *)
(* The module-global connector cache is not session state.                 *)
(***************************************************************************)
ForceDataRefresh ==
    /\ Constructed
    /\ constructions < MaxConstructions
    /\ live' = NoModel
    /\ sandbox' = NoModel
    /\ sandbox_mode' = FALSE
    /\ audit_trail' = <<>>
    /\ ui_msg' = "none"
    /\ UNCHANGED ret
    /\ UNCHANGED <<connVars, constructions, rng, shellVars, libVars>>

(***************************************************************************)
(* utils/ml_models.py and the dashboards' forecast helper.  A data frame   *)
(* is the sequence of its rows.  A fitted estimator is kept as the rows it *)
(* was fitted on: with random_state = 42 the fit is a function of them.    *)
(***************************************************************************)
MinTrainRows == 5
MinForecastRows == 12

NoModelResult == [model |-> "None", features |-> "None"]
NoFrame == [frame |-> "None"]

KnownRows(df) == SelectSeq(df, LAMBDA r : r.final_outcome # "None")

\* train_df['target'] = (final_outcome == 'Delayed').astype(int)
Targets(df) ==
    {IF r.final_outcome = "Delayed" THEN 1 ELSE 0 : r \in Range(KnownRows(df))}

\* The body of train_schedule_risk_model.
TrainScheduleRiskModel(df) ==
    LET train_df == KnownRows(df) IN
    IF Len(train_df) < MinTrainRows \/ Cardinality(Targets(df)) < 2
    THEN NoModelResult
    ELSE [model |-> "LogisticRegression", fitted_on |-> train_df,
          features |-> "schedule_features"]

\* The body of train_eac_prediction_model: rows whose features or target are
\* not finite (budget_usd = 0 divides by zero) are dropped before the fit.
TrainEacPredictionModel(df) ==
    LET train_df == KnownRows(df)
        clean == SelectSeq(train_df, LAMBDA r : r.budget_usd # 0)
    IN IF Len(train_df) < MinTrainRows THEN NoModelResult
       ELSE IF Len(clean) < MinTrainRows THEN NoModelResult
       ELSE [model |-> "GradientBoostingRegressor", fitted_on |-> clean,
             features |-> "eac_features"]

\* The body of get_project_clusters: the frame with a cluster label per row.
GetProjectClusters(df, n_clusters) ==
    IF Len(df) = 0 \/ Len(df) < n_clusters
    THEN NoFrame
    ELSE [frame |-> df, cluster |-> "KMeans", n_clusters |-> n_clusters]

\* The body of get_resource_forecast (dashboards/resource_allocation.py).
GetResourceForecast(df, role, periods) ==
    LET df_role == SelectSeq(df, LAMBDA r : r.role = role) IN
    IF Len(df_role) < MinForecastRows
    THEN NoFrame
    ELSE [frame |-> "forecast", fitted_on |-> df_role, periods |-> periods]

\* predict_project_schedule_risk: 0.0 and no contributions without a model.
PredictProjectScheduleRisk(trained, project) ==
    IF trained.model = "None" \/ trained.features = "None"
    THEN [risk |-> "0.0", contributions |-> "None"]
    ELSE [risk |-> "predict_proba", contributions |-> "coef", project |-> project,
          model |-> trained]

\* Project frames by the final_outcome of their rows; every row has a budget.
ProjectFrame(outcomes) ==
    [i \in 1..Len(outcomes) |->
        [id |-> i, final_outcome |-> outcomes[i], budget_usd |-> 1000000]]

\* Frames the cached functions are called with: four known outcomes, five of
\* one class, five of two classes, and five of two classes with open rows.
CallFrames ==
    { ProjectFrame(<<"Delayed", "On-Time", "Delayed", "On-Time">>),
      ProjectFrame(<<"On-Time", "On-Time", "On-Time", "On-Time", "On-Time">>),
      ProjectFrame(<<"Delayed", "On-Time", "Delayed", "On-Time", "On-Time">>),
      ProjectFrame(<<"None", "Delayed", "On-Time", "Delayed", "On-Time", "On-Time", "None">>) }

\* Demand-history frames: n monthly rows of each of two roles.
DemandFrame(n, base) ==
    [i \in 1..(2 * n) |->
        [role |-> IF i <= n THEN "Assay R&D" ELSE "RA/QA",
         month |-> IF i <= n THEN i ELSE i - n,
         demand_hours |-> base]]

CallDemandFrames == {DemandFrame(11, 100), DemandFrame(12, 100), DemandFrame(12, 120)}
CallClusters == {5}
CallRoles == {"Assay R&D"}
CallPeriods == {12}

(***************************************************************************)
(* st.cache_resource and st.cache_data: the key of a call is the function  *)
(* and the hash of its arguments, except the arguments whose name starts   *)
(* with an underscore, which are not hashed.  A call whose key is in the   *)
(* memo returns the stored value and does not run the body.                *)
(***************************************************************************)
Cached(key, value) ==
    IF key \in DOMAIN ml_cache
    THEN /\ result' = ml_cache[key]
         /\ ml_cache' = ml_cache
    ELSE /\ result' = value
         /\ ml_cache' = [k \in DOMAIN ml_cache \cup {key} |->
                             IF k = key THEN value ELSE ml_cache[k]]

\* @st.cache_resource train_schedule_risk_model(_projects_df)
CallTrainScheduleRiskModel(df) ==
    /\ args' = [fn |-> "train_schedule_risk_model", df |-> df]
    /\ Cached(<<"train_schedule_risk_model", <<>> >>, TrainScheduleRiskModel(df))
    /\ UNCHANGED <<sessionVars, connVars, constructions, rng, shellVars>>

\* @st.cache_resource train_eac_prediction_model(_projects_df)
CallTrainEacPredictionModel(df) ==
    /\ args' = [fn |-> "train_eac_prediction_model", df |-> df]
    /\ Cached(<<"train_eac_prediction_model", <<>> >>, TrainEacPredictionModel(df))
    /\ UNCHANGED <<sessionVars, connVars, constructions, rng, shellVars>>

\* @st.cache_data get_project_clusters(_proj_df, n_clusters)
CallGetProjectClusters(df, n_clusters) ==
    /\ args' = [fn |-> "get_project_clusters", df |-> df, n_clusters |-> n_clusters]
    /\ Cached(<<"get_project_clusters", <<n_clusters>> >>,
              GetProjectClusters(df, n_clusters))
    /\ UNCHANGED <<sessionVars, connVars, constructions, rng, shellVars>>

\* @st.cache_data get_resource_forecast(_demand_history_df, role, periods)
CallGetResourceForecast(df, role, periods) ==
    /\ args' = [fn |-> "get_resource_forecast", df |-> df, role |-> role,
                periods |-> periods]
    /\ Cached(<<"get_resource_forecast", <<role, periods>> >>,
              GetResourceForecast(df, role, periods))
    /\ UNCHANGED <<sessionVars, connVars, constructions, rng, shellVars>>

\* predict_project_schedule_risk(model, features, project_series) with the
\* pair the last training call returned.
CallPredictProjectScheduleRisk(project) ==
    /\ args.fn = "train_schedule_risk_model"
    /\ args' = [fn |-> "predict_project_schedule_risk", trained |-> result,
                project |-> project]
    /\ result' = PredictProjectScheduleRisk(result, project)
    /\ UNCHANGED ml_cache
    /\ UNCHANGED <<sessionVars, connVars, constructions, rng, shellVars>>

(***************************************************************************)
(* utils/optimization.py: optimize_portfolio.  A project id is kept as the *)
(* sequence of its parts between dashes ("NPD-001" is <<"NPD", "001">>),   *)
(* a variable name as the sequence of its parts between underscores.  The  *)
(* solver returns one of the optimal 0/1 assignments of the program.       *)
(***************************************************************************)
RECURSIVE Sum(_)
Sum(s) == IF Len(s) = 0 THEN 0 ELSE Head(s) + Sum(Tail(s))

\* The rows of a frame at the given positions, in the frame's order.
RowsAt(rows, X) ==
    LET RECURSIVE Pick(_)
        Pick(i) == IF i > Len(rows) THEN <<>>
                   ELSE IF i \in X THEN <<rows[i]>> \o Pick(i + 1)
                   ELSE Pick(i + 1)
    IN Pick(1)

TotalOf(rows, field) == Sum([i \in 1..Len(rows) |-> rows[i][field]])

\* LpVariable.dicts("Project", ids): the name is "Project_" + id, and PuLP
\* replaces each dash of a name by an underscore.
LpVariableName(id) == <<"Project">> \o id

\* var.name.split('_')[1], read back as a project id.
ExtractedId(name) == <<name[2]>>

\* pd.merge(allocations_df, resources_df[['name', 'role']], ...) restricted
\* to one role: the allocation rows of the resources of that role.
RoleAllocations(allocations_df, resources_df, role) ==
    SelectSeq(allocations_df, LAMBDA a :
        \E r \in Range(resources_df) : r.name = a.resource_name /\ r.role = role)

\* role_allocations.loc[project_id == i, 'allocated_hours_week'].sum()
RoleHours(role_allocations, id) ==
    Sum([i \in 1..Len(role_allocations) |->
            IF role_allocations[i].project_id = id
            THEN role_allocations[i].allocated_hours_week ELSE 0])

\* The constraints the program is given: the budget row if max_budget is
\* supplied and positive, a row per role with a positive max_hours and at
\* least one allocation.
LpFeasible(a, X) ==
    LET chosen == RowsAt(a.projects_df, X)
        rc == a.constraints.resource_constraints
    IN /\ ("max_budget" \in DOMAIN a.constraints /\ a.constraints.max_budget > 0) =>
              TotalOf(chosen, "budget_usd") <= a.constraints.max_budget
       /\ (DOMAIN rc # {} /\ Len(a.allocations_df) > 0 /\ Len(a.resources_df) > 0) =>
              \A role \in DOMAIN rc :
                  LET role_allocations ==
                          RoleAllocations(a.allocations_df, a.resources_df, role)
                  IN (rc[role] > 0 /\ Len(role_allocations) > 0) =>
                         Sum([i \in 1..Len(chosen) |->
                                 RoleHours(role_allocations, chosen[i].id)]) <= rc[role]

LpObjective(a, X) ==
    IF a.objective = "Maximize Strategic Value"
    THEN TotalOf(RowsAt(a.projects_df, X), "strategic_value")
    ELSE TotalOf(RowsAt(a.projects_df, X), "risk_score")

\* prob.solve(...): the assignments that are feasible and optimal.
LpSolutions(a) ==
    LET all == {X \in SUBSET (1..Len(a.projects_df)) : LpFeasible(a, X)}
    IN {X \in all : \A Y \in all :
           IF a.objective = "Maximize Strategic Value"
           THEN LpObjective(a, Y) <= LpObjective(a, X)
           ELSE LpObjective(a, Y) >= LpObjective(a, X)}

\* Steps 6 of optimize_portfolio for the assignment X the solver returned.
ExtractResults(a, X) ==
    LET selected_project_ids ==
            {ExtractedId(LpVariableName(a.projects_df[i].id)) : i \in X}
        selected_projects_df ==
            SelectSeq(a.projects_df, LAMBDA p : p.id \in selected_project_ids)
    IN IF X = {}
       THEN [status |-> "Infeasible", selected |-> <<>>]
       ELSE [status |-> "Optimal",
             objective_value |-> LpObjective(a, X),
             total_strategic_value |-> TotalOf(selected_projects_df, "strategic_value"),
             total_budget_used |-> TotalOf(selected_projects_df, "budget_usd"),
             num_projects_selected |-> Cardinality(X),
             selected |-> selected_projects_df]

\* optimize_portfolio: the results it can return for the arguments a.
optimize_portfolio(a) ==
    IF Len(a.projects_df) = 0
    THEN {[status |-> "No projects available to optimize", selected |-> <<>>]}
    ELSE {ExtractResults(a, X) : X \in LpSolutions(a)}

\* Candidate projects, resources and allocations the optimizer is called with.
CandidatePool == <<
    [id |-> <<"A">>, budget_usd |-> 5000000, strategic_value |-> 9, risk_score |-> 7],
    [id |-> <<"B">>, budget_usd |-> 6000000, strategic_value |-> 7, risk_score |-> 4],
    [id |-> <<"NPD", "001">>, budget_usd |-> 5000000, strategic_value |-> 9, risk_score |-> 7],
    [id |-> <<"NPD", "002">>, budget_usd |-> 2500000, strategic_value |-> 7, risk_score |-> 4] >>

OptResources == <<
    [name |-> "Alice Weber", role |-> "Instrument R&D"],
    [name |-> "Bob Chen", role |-> "Software R&D"],
    [name |-> "Charlie Day", role |-> "Assay R&D"],
    [name |-> "Diana Evans", role |-> "RA/QA"] >>

OptAllocations == <<
    [project_id |-> <<"A">>, resource_name |-> "Charlie Day", allocated_hours_week |-> 20],
    [project_id |-> <<"B">>, resource_name |-> "Bob Chen", allocated_hours_week |-> 40],
    [project_id |-> <<"NPD", "001">>, resource_name |-> "Charlie Day", allocated_hours_week |-> 20],
    [project_id |-> <<"NPD", "001">>, resource_name |-> "Diana Evans", allocated_hours_week |-> 10],
    [project_id |-> <<"NPD", "002">>, resource_name |-> "Alice Weber", allocated_hours_week |-> 25],
    [project_id |-> <<"NPD", "002">>, resource_name |-> "Bob Chen", allocated_hours_week |-> 40] >>

NoRoleConstraints == [r \in {} |-> 0]

\* The sliders' values: a role's maximum ranges from 0 to its capacity.
OptRoleConstraints ==
    { NoRoleConstraints,
      [r \in {"Assay R&D"} |-> 0],
      [r \in {"Assay R&D"} |-> 20],
      [r \in {"Assay R&D", "Software R&D"} |-> 40] }

OptBudgets == {1000000, 5000000, 20000000}

OptConstraints ==
    {[resource_constraints |-> rc] : rc \in OptRoleConstraints}
    \cup {[max_budget |-> b, resource_constraints |-> rc] :
              b \in OptBudgets, rc \in OptRoleConstraints}

OptInputs ==
    {[fn |-> "optimize_portfolio",
      projects_df |-> RowsAt(CandidatePool, X),
      allocations_df |-> OptAllocations,
      resources_df |-> OptResources,
      constraints |-> c,
      objective |-> o] :
        X \in SUBSET (1..Len(CandidatePool)), c \in OptConstraints,
        o \in {"Maximize Strategic Value", "Minimize Risk"}}

\* A call of optimize_portfolio with the arguments drawn.
CallOptimizePortfolio ==
    /\ args.fn = "optimize_portfolio"
    /\ result = NoResult
    /\ result' \in optimize_portfolio(args)
    /\ UNCHANGED <<args, ml_cache>>
    /\ UNCHANGED <<sessionVars, connVars, constructions, rng, shellVars>>

(***************************************************************************)
(* Earned-value metrics and the health scorecard.  A quotient is kept as   *)
(* the pair of its numerator and denominator; money is in thousands of     *)
(* dollars, cpi and spi of the scorecard's rows are in hundredths.         *)
(***************************************************************************)
Ratio(n, d) == [num |-> n, den |-> d]

RatioEq(a, b) == a.num * b.den = b.num * a.den

\* _create_spmo_model, final data assembly: cpi, spi and eac_usd of a project.
EvmMetrics(p) ==
    LET cpi == IF p.actuals_usd > 0 THEN Ratio(p.ev_usd, p.actuals_usd) ELSE Ratio(0, 1)
        spi == IF p.pv_usd > 0 THEN Ratio(p.ev_usd, p.pv_usd) ELSE Ratio(0, 1)
    IN [cpi |-> cpi,
        spi |-> spi,
        eac_usd |-> IF cpi.num > 0 THEN Ratio(p.budget_usd * cpi.den, cpi.num)
                    ELSE Ratio(p.budget_usd, 1)]

\* train_eac_prediction_model, feature engineering: cpi and spi of a row.
EacFeatures(row) ==
    [cpi |-> IF row.actuals_usd > 0 THEN Ratio(row.ev_usd, row.actuals_usd) ELSE Ratio(1, 1),
     spi |-> IF row.pv_usd > 0 THEN Ratio(row.ev_usd, row.pv_usd) ELSE Ratio(1, 1)]

EvmInputs ==
    {[fn |-> "evm_metrics",
      project |-> [budget_usd |-> 5000, actuals_usd |-> a, pv_usd |-> pv, ev_usd |-> ev]] :
        a \in {0, 4100}, pv \in {0, 3250}, ev \in {0, 3000}}

\* The final data assembly applied to the project drawn.
CallEvmMetrics ==
    /\ args.fn = "evm_metrics"
    /\ result = NoResult
    /\ result' = EvmMetrics(args.project)
    /\ UNCHANGED <<args, ml_cache>>
    /\ UNCHANGED <<sessionVars, connVars, constructions, rng, shellVars>>

\* np.clip(x, lo, hi)
Clip(x, lo, hi) == IF x < lo THEN lo ELSE IF x > hi THEN hi ELSE x

\* Variant of calculate_health_score without the clipping of spi and cpi.
calculate_health_score_NoClip(project_row) ==
    Ratio(18 * project_row.spi + 18 * project_row.cpi
              + 100 * (10 - project_row.risk_score), 45)

\* calculate_health_score: 0.4 * spi_score + 0.4 * cpi_score + 0.2 *
\* (10 - risk_score) / 9 * 100, as a quotient over 45.
calculate_health_score(project_row) ==
    LET spi_score == Clip(project_row.spi, 0, 100)
        cpi_score == Clip(project_row.cpi, 0, 100)
    IN Ratio(18 * spi_score + 18 * cpi_score + 100 * (10 - project_row.risk_score), 45)

ActiveRows(df) == SelectSeq(df, LAMBDA r : r.health_status # "Completed")

\* render_portfolio_dashboard: np.average(health_score, weights=budget_usd)
\* over the active rows, or 100 if there is none.  budget_usd is in
\* millions of dollars here.
PortfolioHealth(df) ==
    LET active_df == ActiveRows(df) IN
    IF Len(active_df) > 0
    THEN Ratio(Sum([i \in 1..Len(active_df) |->
                       calculate_health_score(active_df[i]).num * active_df[i].budget_usd]),
               45 * TotalOf(active_df, "budget_usd"))
    ELSE Ratio(100, 1)

HealthRows ==
    [spi : {0, 100, 137}, cpi : {50, 100}, risk_score : {1, 10},
     budget_usd : {1, 3}, health_status : {"On Track", "Completed"}]

HealthInputs ==
    {[fn |-> "portfolio_health", df |-> df] :
        df \in UNION {[1..n -> HealthRows] : n \in 0..MaxActive}}

\* The scorecard computed on the frame drawn.
CallPortfolioHealth ==
    /\ args.fn = "portfolio_health"
    /\ result = NoResult
    /\ result' = [health_score |->
                      [i \in 1..Len(ActiveRows(args.df)) |->
                          calculate_health_score(ActiveRows(args.df)[i])],
                  portfolio_health |-> PortfolioHealth(args.df)]
    /\ UNCHANGED <<args, ml_cache>>
    /\ UNCHANGED <<sessionVars, connVars, constructions, rng, shellVars>>

(***************************************************************************)
(* The automation engine run on every model load.  predicted_schedule_risk *)
(* is in thousandths; an alert cites it as a whole percentage.             *)
(***************************************************************************)
RiskThreshold == 700

\* f"{risk:.0%}": the risk rounded to a whole percentage.
Percent(risk) == (risk + 5) \div 10

\* Variant of the engine's first rule with the threshold included.
HighRiskAlerts_Inclusive(projects) ==
    [i \in 1..Len(SelectSeq(projects, LAMBDA p : p.predicted_schedule_risk >= RiskThreshold)) |->
        LET p == SelectSeq(projects, LAMBDA q : q.predicted_schedule_risk >= RiskThreshold)[i]
        IN [type |-> "High Predictive Risk", severity |-> "error", project_id |-> p.id,
            percent |-> Percent(p.predicted_schedule_risk)]]

\* Rule 1: an error alert per project with predicted_schedule_risk > 0.7.
HighRiskAlerts(projects) ==
    [i \in 1..Len(SelectSeq(projects, LAMBDA p : p.predicted_schedule_risk > RiskThreshold)) |->
        LET p == SelectSeq(projects, LAMBDA q : q.predicted_schedule_risk > RiskThreshold)[i]
        IN [type |-> "High Predictive Risk", severity |-> "error", project_id |-> p.id,
            percent |-> Percent(p.predicted_schedule_risk)]]

\* Rule 3: an error alert per project with predicted_eac_usd > 1.1 * budget_usd.
CostOverrunAlerts(projects) ==
    [i \in 1..Len(SelectSeq(projects, LAMBDA p : 10 * p.predicted_eac_usd > 11 * p.budget_usd)) |->
        LET p == SelectSeq(projects, LAMBDA q : 10 * q.predicted_eac_usd > 11 * q.budget_usd)[i]
        IN [type |-> "Cost Overrun Predicted", severity |-> "error", project_id |-> p.id,
            percent |-> 0]]

\* The alerts collection of a loaded model.
AutomationAlerts(projects) == HighRiskAlerts(projects) \o CostOverrunAlerts(projects)

AlertProjects ==
    UNION {{f \in [1..n -> [predicted_schedule_risk : {500, 700, 701, 850},
                            predicted_eac_usd : {1050, 1150}]] : TRUE} : n \in 1..MaxAlertProjects}

AlertInputs ==
    {[fn |-> "automation_engine",
      projects |-> [i \in 1..Len(f) |->
                       [id |-> i, budget_usd |-> 1000,
                        predicted_schedule_risk |-> f[i].predicted_schedule_risk,
                        predicted_eac_usd |-> f[i].predicted_eac_usd]]] :
        f \in AlertProjects}

\* A model load: the engine run on the enriched projects drawn.
CallAutomationEngine ==
    /\ args.fn = "automation_engine"
    /\ result = NoResult
    /\ result' = [alerts |-> AutomationAlerts(args.projects)]
    /\ UNCHANGED <<args, ml_cache>>
    /\ UNCHANGED <<sessionVars, connVars, constructions, rng, shellVars>>

(***************************************************************************)
(* predict_eac.  The regressor is kept as the burn ratio its predict()     *)
(* returns for the project; money is in thousands of dollars.              *)
(***************************************************************************)
\* max(a, b) of Python on two quotients with positive denominators
RatioMax(a, b) == IF b.num * a.den > a.num * b.den THEN b ELSE a

\* a >= b on two quotients with positive denominators
RatioGeq(a, b) == a.num * b.den >= b.num * a.den

\* the model argument when train_eac_prediction_model returned (None, None)
NoneModel == [trained |-> FALSE]

\* predict_eac without the floor at actuals_usd on the regressor's branch
predict_eac_NoFloor(model, features, project_series) ==
    LET cpi == IF "cpi" \in DOMAIN project_series THEN project_series.cpi ELSE Ratio(1, 1)
        formula_eac == IF cpi.num > 0
                       THEN Ratio(project_series.budget_usd * cpi.den, cpi.num)
                       ELSE Ratio(project_series.budget_usd, 1)
    IN IF ~model.trained \/ features = "None"
       THEN RatioMax(formula_eac, Ratio(project_series.actuals_usd, 1))
       ELSE Ratio(project_series.budget_usd * model.predict.num, model.predict.den)

\* predict_eac(model, features, project_series)
predict_eac(model, features, project_series) ==
    LET cpi == IF "cpi" \in DOMAIN project_series THEN project_series.cpi ELSE Ratio(1, 1)
        formula_eac == IF cpi.num > 0
                       THEN Ratio(project_series.budget_usd * cpi.den, cpi.num)
                       ELSE Ratio(project_series.budget_usd, 1)
    IN IF ~model.trained \/ features = "None"
       THEN RatioMax(formula_eac, Ratio(project_series.actuals_usd, 1))
       ELSE LET predicted_burn_ratio == model.predict
                forecasted_eac == Ratio(project_series.budget_usd * predicted_burn_ratio.num,
                                        predicted_burn_ratio.den)
            IN RatioMax(forecasted_eac, Ratio(project_series.actuals_usd, 1))

\* The burn ratios a trained regressor answers with.
BurnRatios == {Ratio(0 - 1, 10), Ratio(1, 2), Ratio(6, 5)}

EacModels == {NoneModel} \cup {[trained |-> TRUE, predict |-> r] : r \in BurnRatios}

\* Project rows with and without a cpi column.
EacProjects ==
    {[budget_usd |-> 5000, actuals_usd |-> a] : a \in {0, 4100, 6500}}
    \cup {[budget_usd |-> 5000, actuals_usd |-> a, cpi |-> c] :
            a \in {0, 4100, 6500},
            c \in {Ratio(0, 1), Ratio(30, 41), Ratio(5, 4), Ratio(0 - 1, 2)}}

EacInputs ==
    {[fn |-> "predict_eac", model |-> m, features |-> f, project_series |-> p] :
        m \in EacModels, f \in {"None", "features"}, p \in EacProjects}

\* predict_eac applied to the arguments drawn.
CallPredictEac ==
    /\ args.fn = "predict_eac"
    /\ result = NoResult
    /\ result' = [eac |-> predict_eac(args.model, args.features, args.project_series)]
    /\ UNCHANGED <<args, ml_cache>>
    /\ UNCHANGED <<sessionVars, connVars, constructions, rng, shellVars>>

(***************************************************************************)
(* render_plm_cockpit, DHF completeness per project.  completeness_pct is  *)
(* in tenths of a percent; a NaN of the frame is the record with isnan.    *)
(***************************************************************************)
MaxDocs == 4

\* Series.round(1) of the quotient n / d times 100, in tenths of a percent
RoundTenths(n, d) == (2000 * n + d) \div (2 * d)

\* dhf_df.groupby('project_id').size(): the number of rows per project id
GroupSize(rows) ==
    [p \in {rows[i].project_id : i \in 1..Len(rows)} |->
        Cardinality({i \in 1..Len(rows) : rows[i].project_id = p})]

\* The quotient of the two size series (aligned on the union of their
\* indexes), times 100, rounded, merged with the active projects.
dhf_completeness(dhf_items, active_ids) ==
    LET approved == GroupSize(SelectSeq(dhf_items, LAMBDA d : d.status = "Approved"))
        total == GroupSize(dhf_items)
        quotient(p) == IF p \in DOMAIN approved /\ p \in DOMAIN total
                       THEN [isnan |-> FALSE, tenths |-> RoundTenths(approved[p], total[p])]
                       ELSE [isnan |-> TRUE]
    IN {[project_id |-> p, completeness_pct |-> quotient(p)] :
            p \in ((DOMAIN approved \cup DOMAIN total) \cap active_ids)}

DhfRows ==
    [project_id : {"NPD-001", "NPD-002"}, status : {"Approved", "In Review"}]

DhfInputs ==
    {[fn |-> "dhf_completeness", dhf_items |-> d, active_ids |-> a] :
        d \in UNION {[1..n -> DhfRows] : n \in 0..MaxDocs},
        a \in {{"NPD-001"}, {"NPD-001", "NPD-002"}}}

\* The DHF tab computed on the documents drawn; a frame built from an empty
\* list has no 'status' column.
CallDhfCompleteness ==
    /\ args.fn = "dhf_completeness"
    /\ result = NoResult
    /\ result' = IF args.dhf_items = <<>>
                 THEN [raised |-> "KeyError"]
                 ELSE [dhf_completeness |-> dhf_completeness(args.dhf_items, args.active_ids)]
    /\ UNCHANGED <<args, ml_cache>>
    /\ UNCHANGED <<sessionVars, connVars, constructions, rng, shellVars>>

(***************************************************************************)
(* render_resource_dashboard, tactical allocation tab.  A finite           *)
(* utilization_pct is the quotient num / den; the float division of the    *)
(* frame by a zero capacity gives inf for positive hours and NaN for none. *)
(***************************************************************************)
MaxAllocRows == 2

\* alloc_df.groupby('resource_name')['allocated_hours_week'].sum(), merged
\* to the left on the resources and filled with 0
TotalAllocIndividual(allocations, name) ==
    TotalOf(SelectSeq(allocations, LAMBDA a : a.resource_name = name),
            "allocated_hours_week")

\* (allocated_hours_week / capacity_hours_week) * 100
UtilizationPct(allocated, capacity) ==
    IF capacity # 0 THEN [kind |-> "finite", num |-> allocated * 100, den |-> capacity]
    ELSE IF allocated > 0 THEN [kind |-> "inf"]
    ELSE [kind |-> "nan"]

\* utilization_pct > 100
Over100(pct) ==
    \/ pct.kind = "inf"
    \/ pct.kind = "finite" /\ pct.num > 100 * pct.den

\* utilization_df and over_allocated_count
resource_utilization(resources, allocations) ==
    LET utilization_df ==
            [i \in 1..Len(resources) |->
                [name |-> resources[i].name,
                 utilization_pct |->
                     UtilizationPct(TotalAllocIndividual(allocations, resources[i].name),
                                    resources[i].capacity_hours_week)]]
    IN [utilization_df |-> utilization_df,
        over_allocated_count |->
            Cardinality({i \in 1..Len(resources) : Over100(utilization_df[i].utilization_pct)})]

UtilResources ==
    {<<[name |-> "Bob Chen", capacity_hours_week |-> c],
       [name |-> "Diana Evans", capacity_hours_week |-> 40]>> : c \in {0, 40}}

UtilAllocationRows ==
    [project_id : {"NPD-001", "NPD-002"},
     resource_name : {"Bob Chen", "Diana Evans"},
     allocated_hours_week : {20, 25, 40}]

UtilInputs ==
    {[fn |-> "resource_utilization", resources |-> r, allocations |-> a] :
        r \in UtilResources,
        a \in UNION {[1..n -> UtilAllocationRows] : n \in 1..MaxAllocRows}}

\* The tactical tab computed on the resources and allocations drawn.
CallResourceUtilization ==
    /\ args.fn = "resource_utilization"
    /\ result = NoResult
    /\ result' = resource_utilization(args.resources, args.allocations)
    /\ UNCHANGED <<args, ml_cache>>
    /\ UNCHANGED <<sessionVars, connVars, constructions, rng, shellVars>>

(***************************************************************************)
(* The dashboards' guards on the collections they load.  A stored          *)
(* collection is kept by its shape only: "[]" an empty list, "{}" an empty *)
(* dict, "rows" a collection with content.                                 *)
(***************************************************************************)
\* get_data on a stored model: the key's value, or [] for a key the model
\* does not have
GetDataOf(model, key) == IF key \in DOMAIN model THEN model[key] ELSE "[]"

\* not x
Falsy(x) == x \in {"[]", "{}"}

\* The shapes a key of the model can be stored with.
StoredShapes(key) == IF key = "qms_kpis" THEN {"{}", "rows"} ELSE {"[]", "rows"}

\* The stored models over the given keys: each key absent or of some shape.
StoredModels(keys) ==
    UNION {{m \in [present -> {"[]", "{}", "rows"}] :
               \A k \in present : m[k] \in StoredShapes(k)} :
           present \in SUBSET keys}

\* render_risk_dashboard, up to the first guard
render_risk_dashboard(model) ==
    LET raid_logs == GetDataOf(model, "raid_logs")
        qms_kpis == GetDataOf(model, "qms_kpis")
        projects == GetDataOf(model, "projects")
    IN IF qms_kpis = "[]" THEN [outcome |-> "raised", error |-> "AttributeError"]
       ELSE IF Falsy(raid_logs) \/ Falsy(projects)
            THEN [outcome |-> "notice", error |-> "none"]
       ELSE [outcome |-> "rendered", error |-> "none"]

\* render_portfolio_dashboard, up to the KPI row
render_portfolio_dashboard(model) ==
    LET projects == GetDataOf(model, "projects")
        qms_kpis == GetDataOf(model, "qms_kpis")
    IN IF Falsy(projects) THEN [outcome |-> "notice", error |-> "none"]
       ELSE IF qms_kpis = "[]" THEN [outcome |-> "raised", error |-> "AttributeError"]
       ELSE [outcome |-> "rendered", error |-> "none"]

\* render_strategy_dashboard, up to the optimizer form
render_strategy_dashboard(model) ==
    LET projects == GetDataOf(model, "projects")
        goals == GetDataOf(model, "strategic_goals")
        allocations == GetDataOf(model, "allocations")
        resources == GetDataOf(model, "enterprise_resources")
    IN IF Falsy(projects) \/ Falsy(goals) THEN [outcome |-> "notice", error |-> "none"]
       ELSE IF Falsy(allocations) \/ Falsy(resources)
            THEN [outcome |-> "raised", error |-> "KeyError"]
       ELSE [outcome |-> "rendered", error |-> "none"]

RiskKeys == {"raid_logs", "qms_kpis", "projects"}
PortfolioKeys == {"projects", "qms_kpis"}
StrategyKeys == {"projects", "strategic_goals", "allocations", "enterprise_resources"}

RenderInputs ==
    {[fn |-> "render_risk_dashboard", keys |-> RiskKeys, model |-> m] :
        m \in StoredModels(RiskKeys)}
    \cup {[fn |-> "render_portfolio_dashboard", keys |-> PortfolioKeys, model |-> m] :
        m \in StoredModels(PortfolioKeys)}
    \cup {[fn |-> "render_strategy_dashboard", keys |-> StrategyKeys, model |-> m] :
        m \in StoredModels(StrategyKeys)}

CallRenderRiskDashboard ==
    /\ args.fn = "render_risk_dashboard"
    /\ result = NoResult
    /\ result' = render_risk_dashboard(args.model)
    /\ UNCHANGED <<args, ml_cache>>
    /\ UNCHANGED <<sessionVars, connVars, constructions, rng, shellVars>>

CallRenderPortfolioDashboard ==
    /\ args.fn = "render_portfolio_dashboard"
    /\ result = NoResult
    /\ result' = render_portfolio_dashboard(args.model)
    /\ UNCHANGED <<args, ml_cache>>
    /\ UNCHANGED <<sessionVars, connVars, constructions, rng, shellVars>>

CallRenderStrategyDashboard ==
    /\ args.fn = "render_strategy_dashboard"
    /\ result = NoResult
    /\ result' = render_strategy_dashboard(args.model)
    /\ UNCHANGED <<args, ml_cache>>
    /\ UNCHANGED <<sessionVars, connVars, constructions, rng, shellVars>>

(***************************************************************************)
(* render_strategy_dashboard, optimizer tab: the form's submission.  The   *)
(* call's arguments are kept in args; the engine's answer is only drawn.   *)
(***************************************************************************)
\* live_projects_df[live_projects_df['health_status'] != 'Completed']
NotCompleted(projects) == SelectSeq(projects, LAMBDA p : p.health_status # "Completed")

\* Variant of the submission that takes the candidates from get_data's
\* active model.
OptimizerSubmit_ActiveModel(objective) ==
    /\ Constructed
    /\ get_data("projects") # <<>> /\ get_data("strategic_goals") # <<>>
    /\ args' = [fn |-> "optimize_portfolio",
                projects_df |-> NotCompleted(ActiveModel.projects),
                allocations_df |-> get_data("allocations"),
                objective |-> objective]
    /\ ui_msg' = "none"
    /\ UNCHANGED <<live, sandbox, sandbox_mode, audit_trail, ret>>
    /\ UNCHANGED <<result, ml_cache>>
    /\ UNCHANGED <<connVars, constructions, rng, shellVars>>

\* "Optimize Portfolio" pressed: the candidates are read from the session's
\* live slot (ssm._PMO_LIVE_DATA_KEY), the allocations through get_data.
OptimizerSubmit(objective) ==
    /\ Constructed
    /\ get_data("projects") # <<>> /\ get_data("strategic_goals") # <<>>
    /\ args' = [fn |-> "optimize_portfolio",
                projects_df |-> NotCompleted(live.projects),
                allocations_df |-> get_data("allocations"),
                objective |-> objective]
    /\ ui_msg' = "none"
    /\ UNCHANGED <<live, sandbox, sandbox_mode, audit_trail, ret>>
    /\ UNCHANGED <<result, ml_cache>>
    /\ UNCHANGED <<connVars, constructions, rng, shellVars>>

(***************************************************************************)
(* app.py: one script run, step by step.  The run imports the dashboard    *)
(* modules, constructs the orchestrator, draws the alert banner and the    *)
(* navigation, renders the selected dashboard and draws the admin panel.   *)
(* st.stop() ends the run where it is called.                              *)
(***************************************************************************)
Pages == {"Executive Portfolio", "PLM & Design Control Cockpit",
          "Financial & Capacity Planning", "Strategic Alignment",
          "Governance & Reporting", "Project Deep Dive", "Resource Allocation",
          "Risk & QMS Compliance", "PMO Health & Maturity",
          "Cross-Entity Collaboration"}

\* A browser event or st.rerun() starts the script from its first line.
StartRun ==
    /\ pc \in {"idle", "done", "halted"}
    /\ pc' = "imports"
    /\ shown' = {}
    /\ failed' = "none"
    /\ UNCHANGED page
    /\ UNCHANGED <<sessionVars, connVars, constructions, rng, libVars>>

\* The local imports: on ImportError st.error(...) and st.stop().
ShellImports(ok) ==
    /\ pc = "imports"
    /\ IF ok
       THEN /\ pc' = "main"
            /\ UNCHANGED <<shown, failed>>
       ELSE /\ shown' = shown \cup {"fatal_error"}
            /\ failed' = "import"
            /\ pc' = "halted"
    /\ UNCHANGED page
    /\ UNCHANGED <<sessionVars, connVars, constructions, rng, libVars>>

\* Variant of the construction step that reports the failure and goes on.
ShellConstruct_NoStop(ok) ==
    /\ pc = "main"
    /\ IF ok
       THEN /\ shown' = shown \cup {"title"}
            /\ failed' = failed
            /\ IF Constructed
               THEN UNCHANGED <<live, rng, constructions>>
               ELSE /\ live' = CreateSpmoModel
                    /\ rng' = "seed42"
                    /\ constructions' = constructions + 1
       ELSE /\ ~Constructed
            /\ shown' = shown \cup {"title", "fatal_error"}
            /\ failed' = "construct"
            /\ UNCHANGED <<live, rng, constructions>>
    /\ pc' = "banner"
    /\ UNCHANGED <<sandbox, sandbox_mode, audit_trail, ui_msg, ret, page>>
    /\ UNCHANGED <<connVars, libVars>>

\* Variant of the construction step whose constructor sets the sandbox flag,
\* the sandbox slot and the audit trail anew on every run.
ShellConstruct_Reinitializes(ok) ==
    /\ pc = "main"
    /\ IF ok
       THEN /\ shown' = shown \cup {"title"}
            /\ failed' = failed
            /\ pc' = "banner"
            /\ sandbox' = NoModel
            /\ sandbox_mode' = FALSE
            /\ audit_trail' = <<>>
            /\ IF Constructed
               THEN UNCHANGED <<live, rng, constructions>>
               ELSE /\ live' = CreateSpmoModel
                    /\ rng' = "seed42"
                    /\ constructions' = constructions + 1
       ELSE /\ ~Constructed
            /\ shown' = shown \cup {"title", "fatal_error"}
            /\ failed' = "construct"
            /\ pc' = "halted"
            /\ UNCHANGED <<live, rng, constructions>>
            /\ UNCHANGED <<sandbox, sandbox_mode, audit_trail>>
    /\ UNCHANGED <<ui_msg, ret, page>>
    /\ UNCHANGED <<connVars, libVars>>

\* main(): st.title(...), then SPMOSessionStateManager() in a try block; on
\* any exception st.error(...) and st.stop().  The constructor builds the
\* model only if none with the current data_version is stored.
ShellConstruct(ok) ==
    /\ pc = "main"
    /\ IF ok
       THEN /\ shown' = shown \cup {"title"}
            /\ failed' = failed
            /\ pc' = "banner"
            /\ IF Constructed
               THEN UNCHANGED <<live, rng, constructions>>
               ELSE /\ live' = CreateSpmoModel
                    /\ rng' = "seed42"
                    /\ constructions' = constructions + 1
       ELSE /\ ~Constructed
            /\ shown' = shown \cup {"title", "fatal_error"}
            /\ failed' = "construct"
            /\ pc' = "halted"
            /\ UNCHANGED <<live, rng, constructions>>
    /\ UNCHANGED <<sandbox, sandbox_mode, audit_trail, ui_msg, ret, page>>
    /\ UNCHANGED <<connVars, libVars>>

\* The alert banner: drawn if get_data("alerts") is not empty.
ShellBanner ==
    /\ pc = "banner"
    /\ shown' = IF get_data("alerts") # <<>> THEN shown \cup {"alert_banner"} ELSE shown
    /\ pc' = "navigation"
    /\ UNCHANGED <<page, failed>>
    /\ UNCHANGED <<sessionVars, connVars, constructions, rng, libVars>>

\* The sidebar radio: drawn, and its selection read (the browser keeps the
\* selection from one run to the next).
ShellNavigate(selected_name) ==
    /\ pc = "navigation"
    /\ shown' = shown \cup {"navigation"}
    /\ page' = selected_name
    /\ pc' = "render"
    /\ UNCHANGED failed
    /\ UNCHANGED <<sessionVars, connVars, constructions, rng, libVars>>

\* page_to_render(ssm): the selected dashboard's render function runs.
ShellRender ==
    /\ pc = "render"
    /\ shown' = shown \cup {"dashboard"}
    /\ pc' = "footer"
    /\ UNCHANGED <<page, failed>>
    /\ UNCHANGED <<sessionVars, connVars, constructions, rng, libVars>>

\* The admin panel; with its button pressed, st.session_state.clear() and
\* st.rerun().
ShellFooter(pressed) ==
    /\ pc = "footer"
    /\ shown' = shown \cup {"admin"}
    /\ pc' = "done"
    /\ IF pressed
       THEN /\ constructions < MaxConstructions
            /\ live' = NoModel
            /\ sandbox' = NoModel
            /\ sandbox_mode' = FALSE
            /\ audit_trail' = <<>>
       ELSE UNCHANGED <<live, sandbox, sandbox_mode, audit_trail>>
    /\ UNCHANGED <<ui_msg, ret, page, failed>>
    /\ UNCHANGED <<connVars, constructions, rng, libVars>>

Init ==
    /\ live = NoModel
    /\ sandbox = NoModel
    /\ sandbox_mode = FALSE
    /\ audit_trail = <<>>
    /\ ui_msg = "none"
    /\ ret = NoRet
    /\ DATA_CACHE = EmptyCache
    /\ conn_ret = NoRet
    /\ conn_calls = 0
    /\ constructions = 0
    /\ rng = "entropy"
    /\ pc = "idle" /\ shown = {} /\ page = "none" /\ failed = "none"
    /\ args = NoArgs /\ result = NoResult /\ ml_cache = EmptyMemo

Next ==
    \/ Construct
    \/ ToggleSandbox
    \/ \E p \in ProjectIds : CancelProject(p)
    \/ \E p \in ProjectIds : SimReallocateResources(p)
    \/ \E p \in CallProjectIds : CallReallocateResources(p)
    \/ \E k \in DcrKeys : ApproveButton(k[1], k[2])
    \/ \E k \in DcrKeys : CallApproveDcr(k[1], k[2], "PMO Director")
    \/ \E u \in {"System", "PMO Director"} : CallLogAuditEvent("Note", "note", u)
    \/ \E key \in DataKeys : GetData(key)

Spec == Init /\ [][Next]_vars

\* The connector layer over the life of a process, across session resets.
NextCache ==
    \/ \E key \in ConnKeys : ConnGet(key)
    \/ Construct
    \/ ForceDataRefresh

SpecCache == Init /\ [][NextCache]_vars

\* A session with its simulated edits and the admin panel's reset.
NextSession ==
    \/ Construct
    \/ ToggleSandbox
    \/ \E p \in ProjectIds : CancelProject(p)
    \/ \E k \in DcrKeys : ApproveButton(k[1], k[2])
    \/ \E u \in {"System", "PMO Director"} : CallLogAuditEvent("Note", "note", u)
    \/ ForceDataRefresh

SpecSession == Init /\ [][NextSession]_vars

\* The Strategic Alignment page: the sandbox tab and the optimizer tab.
NextPlanning ==
    \/ Construct
    \/ ToggleSandbox
    \/ \E p \in ProjectIds : CancelProject(p)
    \/ \E p \in ProjectIds : SimReallocateResources(p)
    \/ \E o \in {"Maximize Strategic Value", "Minimize Risk"} : OptimizerSubmit(o)

SpecPlanning == Init /\ [][NextPlanning]_vars

\* The script runs of the shell.
NextShell ==
    \/ StartRun
    \/ \E ok \in BOOLEAN : ShellImports(ok)
    \/ \E ok \in BOOLEAN : ShellConstruct(ok)
    \/ ShellBanner
    \/ \E selected_name \in Pages : ShellNavigate(selected_name)
    \/ ShellRender
    \/ \E pressed \in BOOLEAN : ShellFooter(pressed)

SpecShell == Init /\ [][NextShell]_vars

\* The pages a user of the sandbox moves between.
RerunPages == {"Executive Portfolio", "Strategic Alignment", "Project Deep Dive"}

\* The sandbox toggle flipped on the page that shows it: its on_change
\* callback runs before the next script run.
PageToggleSandbox ==
    /\ pc = "done"
    /\ page = "Strategic Alignment"
    /\ ToggleSandbox

\* "Sim: Cancel Project" pressed: the handler runs while the page renders.
PageCancelProject(selected_project_id) ==
    /\ pc = "render"
    /\ page = "Strategic Alignment"
    /\ CancelProject(selected_project_id)

\* "Approve" pressed: the handler runs while the page renders.
PageApproveButton(dcr_id, selected_project_id) ==
    /\ pc = "render"
    /\ page = "Project Deep Dive"
    /\ ApproveButton(dcr_id, selected_project_id)

\* One session over many script runs, with edits made from the pages.
NextRerun ==
    \/ StartRun
    \/ \E ok \in BOOLEAN : ShellImports(ok)
    \/ \E ok \in BOOLEAN : ShellConstruct(ok)
    \/ ShellBanner
    \/ \E selected_name \in RerunPages : ShellNavigate(selected_name)
    \/ ShellRender
    \/ \E pressed \in BOOLEAN : ShellFooter(pressed)
    \/ PageToggleSandbox
    \/ \E p \in CallProjectIds : PageCancelProject(p)
    \/ \E k \in DcrKeys : PageApproveButton(k[1], k[2])

SpecRerun == Init /\ [][NextRerun]_vars

\* The calls of the memoized functions over the life of a process.
NextMemo ==
    \/ \E df \in CallFrames : CallTrainScheduleRiskModel(df)
    \/ \E df \in CallFrames : CallTrainEacPredictionModel(df)
    \/ \E df \in CallFrames, n \in CallClusters : CallGetProjectClusters(df, n)
    \/ \E df \in CallDemandFrames, role \in CallRoles, periods \in CallPeriods :
           CallGetResourceForecast(df, role, periods)
    \/ \E project \in {"NPD-001"} : CallPredictProjectScheduleRisk(project)

SpecMemo == Init /\ [][NextMemo]_vars

\* The arguments the library functions are called with.
LibInputs ==
    EvmInputs \cup EacInputs \cup RenderInputs \cup DhfInputs \cup UtilInputs
        \cup OptInputs \cup AlertInputs \cup HealthInputs

\* A library call on arguments drawn from LibInputs.
InitLib ==
    /\ live = NoModel
    /\ sandbox = NoModel
    /\ sandbox_mode = FALSE
    /\ audit_trail = <<>>
    /\ ui_msg = "none"
    /\ ret = NoRet
    /\ DATA_CACHE = EmptyCache
    /\ conn_ret = NoRet
    /\ conn_calls = 0
    /\ constructions = 0
    /\ rng = "entropy"
    /\ pc = "idle" /\ shown = {} /\ page = "none" /\ failed = "none"
    /\ args \in LibInputs
    /\ result = NoResult
    /\ ml_cache = EmptyMemo

NextLib ==
    \/ CallOptimizePortfolio
    \/ CallEvmMetrics
    \/ CallPortfolioHealth
    \/ CallAutomationEngine
    \/ CallPredictEac
    \/ CallDhfCompleteness
    \/ CallResourceUtilization
    \/ CallRenderRiskDashboard
    \/ CallRenderPortfolioDashboard
    \/ CallRenderStrategyDashboard

SpecLib == InitLib /\ [][NextLib]_vars

(***************************************************************************)
(* Properties.                                                             *)
(***************************************************************************)
HasEvent(event_type, details) ==
    \E i \in 1..Len(audit_trail) :
        audit_trail[i].event_type = event_type /\ audit_trail[i].details = details

DcrStatus(model) ==
    [i \in 1..Len(model.change_controls) |-> model.change_controls[i].status]

ApproveInvoked(k) ==
    CallApproveDcr(k[1], k[2], "PMO Director") \/ ApproveButton(k[1], k[2])

ReallocateInvoked(p) ==
    (p \in CallProjectIds /\ CallReallocateResources(p)) \/ SimReallocateResources(p)

\* C1: Sandbox isolation. No step taken while sandbox mode is on, nor the
\* steps entering and leaving it, changes the live model; so after enter,
\* any sandbox mutations and exit the live model is what it was before.
C1_SandboxIsolation ==
    [][(sandbox_mode \/ sandbox_mode') => live' = live]_vars

\* A project was cancelled in the sandbox and sandbox mode has been left.
C1_Witness ==
    /\ ~sandbox_mode
    /\ sandbox = NoModel
    /\ HasEvent("Sandbox Simulation", <<"cancel", "NPD-001">>)

\* C2: Fresh clone on re-entry. Every step that enters sandbox mode leaves
\* the sandbox copy equal to the live model of that moment.
C2_FreshClone ==
    [][(~sandbox_mode /\ sandbox_mode') => sandbox' = live']_vars

\* Sandbox mode entered a second time after an edit in the first session.
C2_Witness ==
    /\ sandbox_mode
    /\ Len(audit_trail) = 3
    /\ audit_trail[1].event_type = "Sandbox Mode"
    /\ audit_trail[2].event_type \in {"Sandbox Simulation", "DCR Approved"}
    /\ audit_trail[3].event_type = "Sandbox Mode"
    /\ sandbox = live

\* C3: get_data(key) returns the collection of the active model (the sandbox
\* copy in sandbox mode, the live model otherwise) and changes no state.
C3_GetDataActive ==
    [][\A key \in DataKeys : GetData(key) =>
          /\ ret'.value = Lookup(ActiveModel, key)
          /\ UNCHANGED <<live, sandbox, sandbox_mode, audit_trail>>]_vars

\* C4: DCR approval gating. An approval invoked while sandbox mode is off
\* changes no ChangeControl status in either model and shows an error.
C4_ApprovalGating ==
    [][\A k \in DcrKeys : (~sandbox_mode /\ ApproveInvoked(k)) =>
          /\ DcrStatus(live') = DcrStatus(live)
          /\ live' = live /\ sandbox' = sandbox
          /\ ui_msg' = "error"]_vars

\* An approval was refused outside sandbox mode.
C4_Witness ==
    /\ Constructed
    /\ ~sandbox_mode
    /\ ui_msg = "error"
    /\ live = CreateSpmoModel

\* C5: approve_dcr in sandbox mode sets the matching DCR of the sandbox model
\* to Approved, leaves every other DCR and collection unchanged, appends an
\* audit event, and the re-rendered Change Control tab lists the DCR under
\* Approved and no longer under Pending Review.
C5_ApproveInSandbox ==
    [][\A k \in DcrKeys : (sandbox_mode /\ ApproveInvoked(k)) =>
          /\ \A i \in 1..Len(sandbox.change_controls) :
                LET c == sandbox.change_controls[i] IN
                sandbox'.change_controls[i] =
                    IF c.dcr_id = k[1] /\ c.project_id = k[2]
                    THEN [c EXCEPT !.status = "Approved"] ELSE c
          /\ sandbox' = [sandbox EXCEPT !.change_controls = sandbox'.change_controls]
          /\ live' = live
          /\ Len(audit_trail') = Len(audit_trail) + 1
          /\ \E c \in Range(ApprovedChanges(k[2])') : c.dcr_id = k[1]
          /\ ~ \E c \in Range(PendingChanges(k[2])') : c.dcr_id = k[1]]_vars

C7_AuditAppendOnly ==
    [][/\ IsPrefix(audit_trail, audit_trail')
       /\ \A u \in {"System", "PMO Director"} :
             CallLogAuditEvent("Note", "note", u) =>
                 audit_trail' = Append(audit_trail, AuditEvent("Note", "note", u))]_vars

\* log_audit_event was called outside sandbox mode, then inside it.
C7_Witness ==
    /\ sandbox_mode
    /\ Len(audit_trail) = 3
    /\ audit_trail[1].event_type = "Note"
    /\ audit_trail[2].event_type = "Sandbox Mode"
    /\ audit_trail[3].event_type = "Note"

C9_Reallocate ==
    [][\A p \in ProjectIds : ReallocateInvoked(p) =>
          IF sandbox_mode
          THEN /\ \A i \in 1..Len(sandbox'.allocations) :
                      sandbox'.allocations[i].project_id # p
               /\ sandbox'.allocations =
                      SelectSeq(sandbox.allocations, LAMBDA a : a.project_id # p)
               /\ sandbox' = [sandbox EXCEPT !.allocations = sandbox'.allocations]
               /\ live' = live
               /\ Len(audit_trail') = Len(audit_trail) + 1
          ELSE /\ live' = live /\ sandbox' = sandbox
               /\ audit_trail' = audit_trail
               /\ ui_msg' = "warning"]_vars

\* The allocations of NPD-001 were released in the sandbox; the others remain.
C9_Witness ==
    /\ sandbox_mode
    /\ HasEvent("Sandbox Simulation", <<"reallocate", "NPD-001">>)
    /\ Len(sandbox.allocations) = 6
    /\ Len(live.allocations) = 8

\* C10: The connector cache is populated once per process: once populated,
\* no accessor call and no session reset changes it, and every accessor
\* call returns the cached collection of its name.
C10_CachePopulatedOnce ==
    [][/\ DATA_CACHE # EmptyCache => DATA_CACHE' = DATA_CACHE
       /\ conn_calls' # conn_calls =>
             /\ DATA_CACHE' # EmptyCache
             /\ conn_ret'.key \in ConnKeys
             /\ conn_ret'.value = DATA_CACHE'[conn_ret'.key]]_vars

\* A later accessor call returned the generated financials from the cache.
C10_Witness ==
    /\ conn_calls >= 2
    /\ DATA_CACHE # EmptyCache
    /\ conn_ret.key = "financials"
    /\ conn_ret.value = DATA_CACHE["financials"]

\* The session state right after the first construction.
FirstConstructed ==
    /\ live = CreateSpmoModel
    /\ sandbox = NoModel
    /\ sandbox_mode = FALSE
    /\ audit_trail = <<>>

\* C11: Force Data Refresh is a full session reset. From any state the step
\* leaves no session state behind (no model, sandbox mode off, empty sandbox
\* slot, empty audit trail), and the construction of the next run gives the
\* state the first construction gave.
C11_FullReset ==
    [][/\ (Constructed /\ ~Constructed') =>
             /\ live' = NoModel /\ sandbox' = NoModel
             /\ sandbox_mode' = FALSE /\ audit_trail' = <<>>
       /\ ~Constructed => Constructed'
       /\ (~Constructed /\ Constructed') => FirstConstructed']_vars

\* The model has been rebuilt after a reset.
C11_Witness ==
    /\ constructions = 2
    /\ FirstConstructed

\* C12: Fatal startup. When an import or the construction of the orchestrator
\* fails, the run shows a fatal error and halts: it draws no alert banner and
\* no navigation and runs no dashboard render function, and nothing more
\* happens in that run.
C12_FatalStartup ==
    /\ [](failed # "none" =>
             /\ pc = "halted"
             /\ "fatal_error" \in shown
             /\ shown \cap {"alert_banner", "navigation", "dashboard", "admin"} = {})
    /\ [][pc = "halted" => (pc' = "imports" /\ shown' = {})]_vars

\* The construction failed in a run whose imports succeeded.
C12_Witness ==
    /\ failed = "construct"
    /\ pc = "halted"
    /\ shown = {"title", "fatal_error"}

\* C13: Memoization is keyed by input content. Every call of the four
\* memoized functions returns what the function's body computes from that
\* call's own arguments.
C13_MemoByContent ==
    /\ args.fn = "train_schedule_risk_model" =>
           result = TrainScheduleRiskModel(args.df)
    /\ args.fn = "train_eac_prediction_model" =>
           result = TrainEacPredictionModel(args.df)
    /\ args.fn = "get_project_clusters" =>
           result = GetProjectClusters(args.df, args.n_clusters)
    /\ args.fn = "get_resource_forecast" =>
           result = GetResourceForecast(args.df, args.role, args.periods)

\* C14: Seeded reproducibility. Every process start populates the connector
\* cache with the same data: the generated Actuals multipliers and demand
\* noise are the ones seed 42 yields, so the caches of two independent
\* process starts are equal.
C14_SeededReproducible ==
    DATA_CACHE # EmptyCache => DATA_CACHE = PopulatedCache(Seed42Fin, Seed42Dem)

\* The constraints as the claims state them: the budget bound if one is
\* supplied, and every constrained role's bound.
ClaimFeasible(a, rows) ==
    /\ "max_budget" \in DOMAIN a.constraints =>
           TotalOf(rows, "budget_usd") <= a.constraints.max_budget
    /\ \A role \in DOMAIN a.constraints.resource_constraints :
           Sum([i \in 1..Len(rows) |->
                   RoleHours(RoleAllocations(a.allocations_df, a.resources_df, role),
                             rows[i].id)])
               <= a.constraints.resource_constraints[role]

\* C15: Optimizer correctness for 'Maximize Strategic Value'. The returned
\* selection keeps the budget and every constrained role's hours within
\* their bounds, no other subset within the bounds has a larger total
\* strategic_value, and the summary's totals and count are those of the
\* returned selection.
C15_MaximizeValueOptimal ==
    (args.fn = "optimize_portfolio" /\ result # NoResult
        /\ args.objective = "Maximize Strategic Value") =>
        /\ ClaimFeasible(args, result.selected)
        /\ \A X \in SUBSET (1..Len(args.projects_df)) :
               ClaimFeasible(args, RowsAt(args.projects_df, X)) =>
                   TotalOf(RowsAt(args.projects_df, X), "strategic_value")
                       <= TotalOf(result.selected, "strategic_value")
        /\ result.status = "Optimal" =>
               /\ result.total_budget_used = TotalOf(result.selected, "budget_usd")
               /\ result.total_strategic_value =
                      TotalOf(result.selected, "strategic_value")
               /\ result.num_projects_selected = Len(result.selected)

\* C16: optimize_portfolio returns the 'Infeasible' status with an empty
\* result exactly when no non-empty subset of the candidates is within the
\* bounds; otherwise, for either objective, it returns a success summary
\* with a selection that is within the bounds.
C16_InfeasibleExactly ==
    (args.fn = "optimize_portfolio" /\ result # NoResult
        /\ Len(args.projects_df) > 0) =>
        LET some == \E X \in SUBSET (1..Len(args.projects_df)) :
                        X # {} /\ ClaimFeasible(args, RowsAt(args.projects_df, X))
        IN /\ (result.status = "Infeasible") <=> ~some
           /\ result.status = "Infeasible" => result.selected = <<>>
           /\ some => /\ result.status = "Optimal"
                       /\ result.selected # <<>>
                       /\ ClaimFeasible(args, result.selected)

\* C17: High-risk alerting. After a model load the alerts hold exactly one
\* error-severity 'High Predictive Risk' alert, citing the percentage, for
\* each project with predicted_schedule_risk > 0.7 and none for a project
\* with predicted_schedule_risk <= 0.7.
C17_HighRiskAlerts ==
    (args.fn = "automation_engine" /\ result # NoResult) =>
        /\ \A i \in 1..Len(args.projects) :
               LET p == args.projects[i]
                   mine == {k \in 1..Len(result.alerts) :
                               /\ result.alerts[k].type = "High Predictive Risk"
                               /\ result.alerts[k].project_id = p.id}
               IN /\ Cardinality(mine) = IF p.predicted_schedule_risk > 700 THEN 1 ELSE 0
                  /\ \A k \in mine :
                         /\ result.alerts[k].severity = "error"
                         /\ 10 * result.alerts[k].percent - 5 <= p.predicted_schedule_risk
                         /\ p.predicted_schedule_risk < 10 * result.alerts[k].percent + 5
        /\ \A k \in 1..Len(result.alerts) :
               result.alerts[k].type = "High Predictive Risk" =>
                   \E i \in 1..Len(args.projects) :
                       args.projects[i].id = result.alerts[k].project_id

\* A load with one project at 0.85, alerted with 85%, and one at 0.7, not alerted.
C17_Witness ==
    /\ args.fn = "automation_engine"
    /\ result # NoResult
    /\ Len(args.projects) = 2
    /\ args.projects[1].predicted_schedule_risk = 850
    /\ args.projects[2].predicted_schedule_risk = 700
    /\ \E k \in 1..Len(result.alerts) :
           /\ result.alerts[k].type = "High Predictive Risk"
           /\ result.alerts[k].project_id = 1
           /\ result.alerts[k].percent = 85
    /\ ~ \E k \in 1..Len(result.alerts) :
             /\ result.alerts[k].type = "High Predictive Risk"
             /\ result.alerts[k].project_id = 2

\* C18: CPI/SPI computation. For every project cpi is 1.0 when actuals_usd
\* is 0 and ev_usd / actuals_usd otherwise, and spi is 1.0 when pv_usd is 0
\* and ev_usd / pv_usd otherwise.
C18_CpiSpi ==
    (args.fn = "evm_metrics" /\ result # NoResult) =>
        /\ RatioEq(result.cpi,
                   IF args.project.actuals_usd = 0 THEN Ratio(1, 1)
                   ELSE Ratio(args.project.ev_usd, args.project.actuals_usd))
        /\ RatioEq(result.spi,
                   IF args.project.pv_usd = 0 THEN Ratio(1, 1)
                   ELSE Ratio(args.project.ev_usd, args.project.pv_usd))

\* C19: Health-score bounds. Every active project's score lies in [0, 100];
\* the portfolio score is the budget-weighted mean of the scores (budgets
\* 1M and 3M with scores 80 and 60 give 65) and lies in [0, 100]; with no
\* active project it is 100.
C19_HealthBounds ==
    (args.fn = "portfolio_health" /\ result # NoResult) =>
        LET active == ActiveRows(args.df)
            score == result.health_score
            total == result.portfolio_health
        IN /\ Len(score) = Len(active)
           /\ \A i \in 1..Len(score) :
                  /\ score[i].den > 0
                  /\ 0 <= score[i].num /\ score[i].num <= 100 * score[i].den
           /\ total.den > 0
           /\ 0 <= total.num /\ total.num <= 100 * total.den
           /\ Len(active) = 0 => RatioEq(total, Ratio(100, 1))
           /\ Len(active) > 0 =>
                  total.num * 45 * TotalOf(active, "budget_usd") =
                      total.den * Sum([i \in 1..Len(active) |->
                                          score[i].num * active[i].budget_usd])
           /\ (/\ Len(active) = 2
               /\ active[1].budget_usd = 1 /\ RatioEq(score[1], Ratio(80, 1))
               /\ active[2].budget_usd = 3 /\ RatioEq(score[2], Ratio(60, 1)))
                  => RatioEq(total, Ratio(65, 1))

\* Budgets 1M and 3M with scores 80 and 60: the portfolio score is 65.
C19_Witness ==
    /\ args.fn = "portfolio_health"
    /\ result # NoResult
    /\ Len(result.health_score) = 2
    /\ ActiveRows(args.df)[1].budget_usd = 1
    /\ ActiveRows(args.df)[2].budget_usd = 3
    /\ RatioEq(result.health_score[1], Ratio(80, 1))
    /\ RatioEq(result.health_score[2], Ratio(60, 1))
    /\ RatioEq(result.portfolio_health, Ratio(65, 1))

\* C20: Classifier training guard. A call of train_schedule_risk_model
\* returns the 'no model' pair exactly when fewer than five rows of its frame
\* have a known final_outcome or all known outcomes are of one class; with
\* the 'no model' pair predict_project_schedule_risk returns 0.0 and no
\* contributions.
C20_TrainingGuard ==
    /\ args.fn = "train_schedule_risk_model" =>
           (result = NoModelResult <=>
               \/ Len(KnownRows(args.df)) < 5
               \/ \A i, j \in 1..Len(KnownRows(args.df)) :
                      (KnownRows(args.df)[i].final_outcome = "Delayed") =
                      (KnownRows(args.df)[j].final_outcome = "Delayed"))
    /\ (args.fn = "predict_project_schedule_risk" /\ args.trained = NoModelResult) =>
           (result.risk = "0.0" /\ result.contributions = "None")

\* C21: EAC floor and fallback. Whatever the model argument, predict_eac
\* returns at least the project's actuals_usd; with no model the value is the
\* larger of actuals_usd and budget_usd / cpi when cpi > 0, and the larger of
\* actuals_usd and budget_usd when cpi <= 0.
C21_EacFloor ==
    (args.fn = "predict_eac" /\ result # NoResult) =>
        LET p == args.project_series
            actuals == Ratio(p.actuals_usd, 1)
        IN /\ RatioGeq(result.eac, actuals)
           /\ (~args.model.trained /\ "cpi" \in DOMAIN p) =>
                  LET closed == IF p.cpi.num > 0
                                THEN Ratio(p.budget_usd * p.cpi.den, p.cpi.num)
                                ELSE Ratio(p.budget_usd, 1)
                  IN /\ RatioGeq(result.eac, closed)
                     /\ RatioEq(result.eac, closed) \/ RatioEq(result.eac, actuals)

\* A trained regressor forecasts less than what is already spent and the
\* value returned is the amount spent.
C21_Witness ==
    /\ args.fn = "predict_eac" /\ result # NoResult
    /\ args.model.trained /\ args.features # "None"
    /\ args.project_series.actuals_usd > 0
    /\ args.project_series.budget_usd * args.model.predict.num
           < args.project_series.actuals_usd * args.model.predict.den
    /\ RatioEq(result.eac, Ratio(args.project_series.actuals_usd, 1))

\* C22: DHF completeness. Every active project with at least one DHF
\* document has one row in the result, and its completeness_pct is the
\* number of its 'Approved' documents over the number of its documents,
\* times 100 (to one decimal); a project with no approved document has 0.0.
C22_DhfCompleteness ==
    (args.fn = "dhf_completeness" /\ "dhf_completeness" \in DOMAIN result) =>
        \A p \in args.active_ids :
            LET docs == SelectSeq(args.dhf_items, LAMBDA d : d.project_id = p)
                appr == SelectSeq(docs, LAMBDA d : d.status = "Approved")
            IN Len(docs) > 0 =>
                   \E row \in result.dhf_completeness :
                       /\ row.project_id = p
                       /\ ~row.completeness_pct.isnan
                       /\ 2 * (row.completeness_pct.tenths * Len(docs) - 1000 * Len(appr))
                              <= Len(docs)
                       /\ 2 * (1000 * Len(appr) - row.completeness_pct.tenths * Len(docs))
                              <= Len(docs)

\* C23: Over-allocation detection. Every resource's utilization_pct is a
\* number, also for a capacity_hours_week of 0; for a positive capacity it is
\* the sum of the resource's allocated_hours_week over capacity_hours_week
\* times 100 (0 with no allocation); over_allocated_count is the number of
\* resources whose utilization_pct is strictly above 100.
C23_OverAllocation ==
    (args.fn = "resource_utilization" /\ result # NoResult) =>
        LET hours(i) == TotalOf(SelectSeq(args.allocations,
                                   LAMBDA a : a.resource_name = args.resources[i].name),
                                "allocated_hours_week")
            pct(i) == result.utilization_df[i].utilization_pct
        IN /\ \A i \in 1..Len(args.resources) :
                  /\ pct(i).kind = "finite"
                  /\ args.resources[i].capacity_hours_week > 0 =>
                         pct(i).num * args.resources[i].capacity_hours_week
                             = 100 * hours(i) * pct(i).den
           /\ result.over_allocated_count =
                  Cardinality({i \in 1..Len(args.resources) :
                                  pct(i).num > 100 * pct(i).den})

\* C24: Empty-input degradation. When get_data answers one of the
\* collections a dashboard loads with the empty list (the key is missing or
\* stored empty), the render function shows its 'no data' notice and returns
\* without raising; qms_kpis of the Risk & QMS and Portfolio dashboards and
\* enterprise_resources and allocations of Strategic Planning are among them.
C24_EmptyInputNotice ==
    (/\ args.fn \in {"render_risk_dashboard", "render_portfolio_dashboard",
                     "render_strategy_dashboard"}
     /\ result # NoResult
     /\ \E k \in args.keys : GetDataOf(args.model, k) = "[]")
        => result.outcome = "notice"

\* C25: Optimizer result extraction. For candidates whose ids have the
\* dataset's form (two parts joined by a dash, as 'NPD-001'), a successful
\* optimize_portfolio returns exactly the rows of the projects whose decision
\* variable is 1 in a solution of the solver: the id read back from each
\* selected variable's name is the project's id, and num_projects_selected
\* is the number of rows returned.
C25_ResultExtraction ==
    (/\ args.fn = "optimize_portfolio"
     /\ result # NoResult
     /\ result.status = "Optimal"
     /\ \A i \in 1..Len(args.projects_df) : Len(args.projects_df[i].id) = 2) =>
        /\ \A i \in 1..Len(args.projects_df) :
               ExtractedId(LpVariableName(args.projects_df[i].id)) = args.projects_df[i].id
        /\ \E X \in LpSolutions(args) : result.selected = RowsAt(args.projects_df, X)
        /\ result.num_projects_selected = Len(result.selected)

\* C26: Single construction per session. Over the script runs of a session
\* the data model is built only by a constructor call that finds no stored
\* model of the current data_version (the first call, or the first after
\* Force Data Refresh); every other constructor call leaves the stored model,
\* sandbox_mode, the sandbox copy with its simulated edits and the audit
\* trail as they were.
C26_SingleConstruction ==
    [][/\ constructions' # constructions =>
              /\ ~Constructed
              /\ constructions' = constructions + 1
       /\ (pc = "main" /\ pc' = "banner" /\ Constructed) =>
              /\ constructions' = constructions
              /\ UNCHANGED <<live, sandbox, sandbox_mode, audit_trail>>]_vars

\* The constructor has just run again in a session that is in sandbox mode
\* with a simulated edit and two audit events; the model was built once.
C26_Witness ==
    /\ pc = "banner"
    /\ constructions = 1
    /\ sandbox_mode
    /\ sandbox # NoModel /\ sandbox # live
    /\ Len(audit_trail) >= 2

C28_ModeSlotConsistency ==
    /\ sandbox_mode <=> sandbox # NoModel
    /\ Constructed =>
           \A key \in DataKeys :
               get_data(key) = Lookup(IF sandbox_mode THEN sandbox ELSE live, key)

\* The project ids of a model's project list.
ModelProjectIds(model) == {model.projects[i].id : i \in 1..Len(model.projects)}

\* The project ids the Allocation and ChangeControl rows of a model refer to.
ReferencedIds(model) ==
    {model.allocations[i].project_id : i \in 1..Len(model.allocations)}
    \cup {model.change_controls[i].project_id : i \in 1..Len(model.change_controls)}

C30_AuditAccounting ==
    [][LET appended == /\ Len(audit_trail') = Len(audit_trail) + 1
                       /\ IsPrefix(audit_trail, audit_trail')
           last == audit_trail'[Len(audit_trail')]
           active == IF sandbox_mode THEN sandbox ELSE live
           active_after == IF sandbox_mode THEN sandbox' ELSE live'
       IN /\ (Constructed /\ sandbox_mode' = sandbox_mode
                 /\ active_after.projects # active.projects) =>
                 /\ appended
                 /\ last.event_type = "Sandbox Simulation"
                 /\ last.details[1] = "cancel"
          /\ (Constructed /\ sandbox_mode' = sandbox_mode
                 /\ active_after.allocations # active.allocations) =>
                 /\ appended
                 /\ last.event_type = "Sandbox Simulation"
                 /\ last.details[1] = "reallocate"
          /\ (Constructed /\ sandbox_mode' = sandbox_mode
                 /\ active_after.change_controls # active.change_controls) =>
                 /\ appended
                 /\ last.event_type = "DCR Approved"
          /\ (~sandbox_mode /\ sandbox_mode') =>
                 /\ appended
                 /\ last.event_type = "Sandbox Mode"
          /\ (~sandbox_mode /\ ui_msg' \in {"error", "warning"}) =>
                 /\ audit_trail' = audit_trail
                 /\ live' = live /\ sandbox' = sandbox]_vars

\* A session that entered sandbox mode, cancelled a project and approved a
\* DCR: three events for the entry and the two changes of the copy.
C30_Witness ==
    /\ sandbox_mode
    /\ Len(audit_trail) = 3
    /\ audit_trail[1].event_type = "Sandbox Mode"
    /\ audit_trail[2].event_type = "Sandbox Simulation"
    /\ audit_trail[3].event_type = "DCR Approved"
    /\ sandbox.projects # live.projects
    /\ sandbox.change_controls # live.change_controls

====
